---- MODULE Spec2Model ----
(***************************************************************************)
(* Model of the DQN training engine of notebook.ipynb: the replay memory,  *)
(* the annealed epsilon-greedy policy, the optimisation step update_model  *)
(* and the main training loop.                                             *)
(*                                                                         *)
(* Numbers: prices are kept as numerators over PriceDen (np.linspace gives *)
(* non-integer prices), rewards in tenths (the reward is price - 0.1*...), *)
(* probabilities in 1/ProbScale.  Approximator parameters are opaque: a    *)
(* parameter set is identified by the number of optimizer steps that       *)
(* produced it, and forward() is a deterministic stand-in table with       *)
(* values in 0 .. QMod-1.  An exception ends the run: pc = "error".        *)
(***************************************************************************)
EXTENDS Integers, Sequences, FiniteSets, TLC

\* ---- sizes of the model (the notebook's values are in the comments) ----
T == 2                \* notebook: T = 10
NumActions == 2       \* the actions are the first NumActions of the price grid
BATCH_SIZE == 2       \* notebook: BATCH_SIZE = 512
TARGET_UPDATE == 2    \* notebook: TARGET_UPDATE = 20
num_episodes == 3     \* notebook: num_episodes = 1000
MaxCapacity == 3      \* notebook: ReplayMemory(10000)
MaxPushes == 5        \* pushes of the replay-memory harness
MaxCalls == 4         \* select_action calls of the policy harness
ProbScale == 1000     \* resolution of probabilities and of math.exp
QMod == 7             \* number of values the stand-in network takes

\* ---- program constants ----
GAMMA == 1
PriceLo == 80
PriceHi == 120
PriceGridLen == 10
eps_decay == 400

None == <<>>

Actions == 0 .. (NumActions - 1)

\* the values random.random() is drawn from, in 1/ProbScale; 0 is a possible draw
DrawSet == {0, 999}

\* (eps_start, eps_end) in 1/ProbScale: pure greedy and the notebook's default
EpsConfigs == {<<0, 0>>, <<900, 50>>}

VARIABLES
    pc,            \* position of the running program / the last call made
    capacity, memory, position,          \* ReplayMemory
    pushed,        \* history: every transition pushed (replay-memory harness)
    batch_size,    \* argument of the last memory.sample
    transitions,   \* result of the last memory.sample
    slots,         \* history: the slots of memory the last sample took
    err,           \* the exception that was raised, "" if none
    eps_start, eps_end, steps_done,      \* AnnealedEpsGreedyPolicy
    q_values, sample, action,            \* select_action: input, draw, result
    policy_net, target_net,              \* parameter sets
    synced,        \* history: policy_net at the most recent load_state_dict
    expected,      \* expected_state_action_values of the last update_model
    did_sample,    \* history: the last update_model passed its guard
    i_episode, t, state,                 \* main loop
    ep_pushes, ep_terminal, last_tr,     \* history: pushes of this episode
    syncs,         \* history: the synchronisations done inside the loop
    prev_tr,       \* history: the transition pushed before last_tr
    next_st, reward,                     \* what the last env_step returned
    p, total       \* profit_total: its price vector and its result

memVars == <<capacity, memory, position>>
smpVars == <<batch_size, transitions, slots>>
polVars == <<eps_start, eps_end, steps_done>>
selVars == <<q_values, sample, action>>
netVars == <<policy_net, target_net, synced, expected, did_sample>>
loopVars == <<i_episode, t, state, ep_pushes, ep_terminal, last_tr, syncs, prev_tr>>
envVars == <<next_st, reward>>
profitVars == <<p, total>>
vars == <<pc, capacity, memory, position, pushed, batch_size, transitions, slots,
          err, eps_start, eps_end, steps_done, q_values, sample, action,
          policy_net, target_net, synced, expected, did_sample,
          i_episode, t, state, ep_pushes, ep_terminal, last_tr, syncs, prev_tr,
          next_st, reward, p, total>>

\* ------------------------------------------------------------------------
\* helpers
RECURSIVE SumSeq(_)
SumSeq(s) == IF s = <<>> THEN 0 ELSE Head(s) + SumSeq(Tail(s))

Abs(x) == IF x < 0 THEN -x ELSE x
Min(a, b) == IF a < b THEN a ELSE b

Zeros(n) == [i \in 1 .. n |-> 0]

\* ------------------------------------------------------------------------
\* Environment

\* price_grid = np.linspace(80, 120, 10): entry a is PriceNum(a) / PriceDen,
\* that is 80, 84.44.., 88.88.., ..., 120
PriceDen == PriceGridLen - 1
PriceNum(a) == PriceLo * PriceDen + a * (PriceHi - PriceLo)

\* env_initial_state: np.repeat(0, 2*T), an integer array
env_initial_state == Zeros(2 * T)

\* the value an integer array keeps when a float is stored in it (truncation)
IntCast(num, den) == num \div den

\* a next_state that starts as a copy of state: the old time bit survives
EnvNextStateKeepsTime(tt, st, a) ==
    [i \in 1 .. Len(st) |->
        IF i = T + tt + 1 THEN 1
        ELSE IF i = 1 THEN IntCast(PriceNum(a), PriceDen)
        ELSE IF i <= T THEN st[i - 1]
        ELSE st[i]]

\* next_state of env_step; index j of the array is element j + 1 here
EnvNextState(tt, st, a) ==
    [i \in 1 .. Len(st) |->
        IF i = T + tt + 1 THEN 1
        ELSE IF i = 1 THEN IntCast(PriceNum(a), PriceDen)
        ELSE IF i <= T THEN st[i - 1]
        ELSE 0]

\* profit_t_response(price, prev_prices) of the training cell, in tenths:
\* price - 0.1 * np.sum(np.abs(np.diff(prev_prices)))
profit_t_response(price, prev_prices) ==
    10 * price
    - SumSeq([i \in 1 .. (Len(prev_prices) - 1) |->
                 Abs(prev_prices[i + 1] - prev_prices[i])])

\* env_step(t, state, action): (next_state, reward), the reward in tenths
env_step(tt, st, a) ==
    LET next_state == EnvNextState(tt, st, a)
    IN  [next_state |-> next_state,
         reward |-> profit_t_response(next_state[1], SubSeq(next_state, 2, T))]

\* ------------------------------------------------------------------------
\* ReplayMemory

Transition(s, a, ns, r) == [state |-> s, action |-> a, next_state |-> ns, reward |-> r]

\* push that stops advancing at the last slot instead of wrapping round
PushNoWrap(mem, pos, cap, tr) ==
    LET grown == IF Len(mem) < cap THEN Append(mem, None) ELSE mem
    IN  [memory |-> [grown EXCEPT ![pos + 1] = tr],
         position |-> IF pos + 1 < cap THEN pos + 1 ELSE pos]

\* ReplayMemory.push: the memory and the position after the call
Push(mem, pos, cap, tr) ==
    LET grown == IF Len(mem) < cap THEN Append(mem, None) ELSE mem
    IN  [memory |-> [grown EXCEPT ![pos + 1] = tr],
         position |-> (pos + 1) % cap]

\* the choices of k distinct slots of a population of n.  random.sample
\* returns the chosen elements in the order drawn; every consumer of a batch
\* works element by element, so a choice is listed once, in slot order.
DistinctSlots(n, k) ==
    {sl \in [1 .. k -> 1 .. n] : \A i, j \in 1 .. k : i < j => sl[i] < sl[j]}

\* sampling with replacement (random.choices in place of random.sample)
RandomSampleWithReplacement(population, k) ==
    IF k < 0 \/ k > Len(population)
    THEN {[err |-> "ValueError", slots |-> <<>>, result |-> <<>>, memory |-> population]}
    ELSE {[err |-> "", slots |-> sl, result |-> [i \in 1 .. k |-> population[sl[i]]],
           memory |-> population] :
             sl \in [1 .. k -> 1 .. Len(population)]}

\* sampling that returns what there is when asked for more
RandomSampleTruncating(population, k) ==
    LET m == Min(k, Len(population))
    IN  {[err |-> "", slots |-> sl, result |-> [i \in 1 .. m |-> population[sl[i]]],
          memory |-> population] :
             sl \in DistinctSlots(Len(population), m)}

\* ReplayMemory.sample(batch_size) = random.sample(self.memory, batch_size): the
\* outcomes the call can have.  random.sample raises ValueError when k is
\* larger than the population or negative, and otherwise returns the elements
\* of k distinct positions, in the order drawn; it does not touch the list.
RandomSample(population, k) ==
    IF k < 0 \/ k > Len(population)
    THEN {[err |-> "ValueError", slots |-> <<>>, result |-> <<>>, memory |-> population]}
    ELSE {[err |-> "", slots |-> sl, result |-> [i \in 1 .. k |-> population[sl[i]]],
           memory |-> population] :
             sl \in DistinctSlots(Len(population), k)}

\* ------------------------------------------------------------------------
\* Approximators (opaque)

\* PolicyNetworkDQN.forward: the value of each action, a deterministic
\* function of the parameter set and the state (stand-in for the network)
forward(params, st) ==
    [a \in Actions |-> (params * (a + 1) + a + SumSeq(st)) % QMod]

\* np.argmax / tensor.max(1)[0]: first index of the maximum, and the maximum
MaxOf(q) == CHOOSE m \in {q[a] : a \in DOMAIN q} : \A a \in DOMAIN q : q[a] <= m
ArgMax(q) == CHOOSE a \in DOMAIN q :
                 /\ q[a] = MaxOf(q)
                 /\ \A b \in DOMAIN q : q[b] = MaxOf(q) => a <= b

\* ------------------------------------------------------------------------
\* AnnealedEpsGreedyPolicy

\* math.exp(-1. * steps_done / eps_decay) in 1/ProbScale, as the fixed-point
\* product of steps_done factors (1 - 1/eps_decay); 1 at steps_done = 0, and
\* positive and at most 1 for every step count of the model
RECURSIVE ExpDecay(_)
ExpDecay(n) ==
    IF n = 0 THEN ProbScale ELSE (ExpDecay(n - 1) * (eps_decay - 1)) \div eps_decay

\* eps_threshold in 1/(ProbScale*ProbScale)
EpsThreshold(es, ee, n) == ee * ProbScale + (es - ee) * ExpDecay(n)

\* the branch select_action takes: sample > eps_threshold
IsGreedy(smp, es, ee, n) == smp * ProbScale > EpsThreshold(es, ee, n)

\* the action select_action returns; r is the value of random.randrange
SelectAction(q, smp, r, es, ee, n) ==
    IF IsGreedy(smp, es, ee, n) THEN ArgMax(q) ELSE r

\* a counter that only counts the greedy calls
StepsAfterGreedyOnly(n, greedy) == IF greedy THEN n + 1 ELSE n

\* steps_done after select_action
StepsAfter(n, greedy) == n + 1

\* ------------------------------------------------------------------------
\* update_model

\* a guard that is off by one
PassesGuardOffByOne(n) == n > BATCH_SIZE

\* the guard of update_model: False when it returns at once
PassesGuard(n) == ~(n < BATCH_SIZE)

\* [s for s in batch.next_state if s is not None]
NonFinal(batch) == {i \in 1 .. Len(batch) : batch[i].next_state # None}

\* expected_state_action_values, in tenths:
\* reward_batch[:, 0] + GAMMA * next_state_values, where next_state_values is
\* 0 except at the non-final transitions, which get target_net(...).max(1)[0]
ExpectedValues(batch, tnet) ==
    [i \in 1 .. Len(batch) |->
        batch[i].reward
        + GAMMA * (IF i \in NonFinal(batch)
                   THEN 10 * MaxOf(forward(tnet, batch[i].next_state))
                   ELSE 0)]

\* an optimizer step that also moves the target network
OptimizerStepBoth(pnet, tnet) == [policy_net |-> pnet + 1, target_net |-> pnet + 1]

\* optimizer.step(): the optimizer was built on policy_net.parameters(), so
\* the step gives policy_net a new parameter set and leaves target_net alone
OptimizerStep(pnet, tnet) == [policy_net |-> pnet + 1, target_net |-> tnet]

\* a terminal test that never fires inside range(T)
StoredNextStateOffByOne(tt, next_state) == IF tt # T THEN next_state ELSE None

\* the stored next_state of the transition pushed at step tt
StoredNextState(tt, next_state) == IF tt # T - 1 THEN next_state ELSE None

\* a loop that forgets to hand the successor state over
AdvanceStateStale(st, next_state) == st

\* state = next_state at the end of a step
AdvanceState(st, next_state) == next_state

\* a cadence that skips episode 0
SyncDueLate(i) == (i + 1) % TARGET_UPDATE = 0

\* the test of the target synchronisation at the end of episode i
SyncDue(i) == i % TARGET_UPDATE = 0

\* update_model(memory, policy_net, target_net, optimizer): the outcomes of
\* one call.  torch.stack raises RuntimeError on an empty list of tensors.
update_model(mem, pnet, tnet) ==
    IF ~PassesGuard(Len(mem))
    THEN {[did_sample |-> FALSE, err |-> "", batch_size |-> 0, slots |-> <<>>,
           transitions |-> <<>>, expected |-> <<>>, memory |-> mem,
           policy_net |-> pnet, target_net |-> tnet]}
    ELSE {IF out.err # ""
          THEN [did_sample |-> TRUE, err |-> out.err, batch_size |-> BATCH_SIZE,
                slots |-> out.slots, transitions |-> out.result, expected |-> <<>>,
                memory |-> out.memory, policy_net |-> pnet, target_net |-> tnet]
          ELSE IF NonFinal(out.result) = {}
          THEN [did_sample |-> TRUE, err |-> "RuntimeError", batch_size |-> BATCH_SIZE,
                slots |-> out.slots, transitions |-> out.result, expected |-> <<>>,
                memory |-> out.memory, policy_net |-> pnet, target_net |-> tnet]
          ELSE [did_sample |-> TRUE, err |-> "", batch_size |-> BATCH_SIZE,
                slots |-> out.slots, transitions |-> out.result,
                expected |-> ExpectedValues(out.result, tnet),
                memory |-> out.memory,
                policy_net |-> OptimizerStep(pnet, tnet).policy_net,
                target_net |-> OptimizerStep(pnet, tnet).target_net] :
          out \in RandomSample(mem, BATCH_SIZE)}

\* ------------------------------------------------------------------------
\* Main training loop

\* memory = ReplayMemory(capacity)
NewMemory ==
    /\ capacity \in 1 .. MaxCapacity
    /\ memory = <<>>
    /\ position = 0
    /\ pushed = <<>>
    /\ batch_size = 0
    /\ transitions = <<>>
    /\ slots = <<>>

\* policy = AnnealedEpsGreedyPolicy(eps_start, eps_end)
NewPolicy ==
    /\ \E cfg \in EpsConfigs : eps_start = cfg[1] /\ eps_end = cfg[2]
    /\ steps_done = 0
    /\ q_values = [a \in Actions |-> 0]
    /\ sample = 0
    /\ action = 0

\* the two networks, and target_net.load_state_dict before the loop
NewNets ==
    /\ policy_net = 0
    /\ target_net = 0
    /\ synced = 0
    /\ expected = <<>>
    /\ did_sample = FALSE

NewLoop ==
    /\ i_episode = 0
    /\ t = 0
    /\ state = env_initial_state
    /\ ep_pushes = 0
    /\ ep_terminal = 0
    /\ last_tr = None
    /\ prev_tr = None
    /\ syncs = {}
    /\ next_st = env_initial_state
    /\ reward = 0
    /\ p = <<>>
    /\ total = 0

InitTrain ==
    /\ pc = IF num_episodes > 0 THEN "episode_start" ELSE "done"
    /\ err = ""
    /\ NewMemory /\ NewPolicy /\ NewNets /\ NewLoop

\* for i_episode in range(num_episodes): state = env_initial_state()
EpisodeStart ==
    /\ pc = "episode_start"
    /\ state' = env_initial_state
    /\ t' = 0
    /\ ep_pushes' = 0
    /\ ep_terminal' = 0
    /\ pc' = IF T > 0 THEN "step" ELSE "episode_end"
    /\ UNCHANGED <<memVars, pushed, smpVars, err, polVars, selVars, netVars,
                   i_episode, last_tr, prev_tr, syncs, envVars, profitVars>>

\* one iteration of "for t in range(T)": select_action, env_step,
\* memory.push, update_model, state = next_state
Step ==
    /\ pc = "step"
    /\ \E smp \in DrawSet :
       \E r \in IF IsGreedy(smp, eps_start, eps_end, steps_done) THEN {0} ELSE Actions :
         LET q  == forward(policy_net, state)
             greedy == IsGreedy(smp, eps_start, eps_end, steps_done)
             a  == SelectAction(q, smp, r, eps_start, eps_end, steps_done)
             es == env_step(t, state, a)
             tr == Transition(state, a, StoredNextState(t, es.next_state), es.reward)
             pm == Push(memory, position, capacity, tr)
         IN  /\ q_values' = q
             /\ sample' = smp
             /\ action' = a
             /\ steps_done' = StepsAfter(steps_done, greedy)
             /\ position' = pm.position
             /\ last_tr' = tr
             /\ prev_tr' = last_tr
             /\ next_st' = es.next_state
             /\ reward' = es.reward
             /\ ep_pushes' = ep_pushes + 1
             /\ ep_terminal' = ep_terminal + (IF tr.next_state = None THEN 1 ELSE 0)
             /\ \E u \in update_model(pm.memory, policy_net, target_net) :
                  /\ memory' = u.memory
                  /\ did_sample' = u.did_sample
                  /\ batch_size' = u.batch_size
                  /\ slots' = u.slots
                  /\ transitions' = u.transitions
                  /\ expected' = u.expected
                  /\ policy_net' = u.policy_net
                  /\ target_net' = u.target_net
                  /\ err' = u.err
                  /\ IF u.err # ""
                     THEN /\ pc' = "error"
                          /\ UNCHANGED <<state, t>>
                     ELSE /\ state' = AdvanceState(state, es.next_state)
                          /\ t' = t + 1
                          /\ pc' = IF t + 1 < T THEN "step" ELSE "episode_end"
    /\ UNCHANGED <<capacity, pushed, eps_start, eps_end, synced, i_episode, syncs,
                   profitVars>>

\* the end of the episode: the bookkeeping and the periodic
\* target_net.load_state_dict(policy_net.state_dict())
EpisodeEnd ==
    /\ pc = "episode_end"
    /\ IF SyncDue(i_episode)
       THEN /\ target_net' = policy_net
            /\ synced' = policy_net
            /\ syncs' = syncs \cup {[episode |-> i_episode, steps |-> ep_pushes]}
       ELSE UNCHANGED <<target_net, synced, syncs>>
    /\ i_episode' = i_episode + 1
    /\ pc' = IF i_episode + 1 < num_episodes THEN "episode_start" ELSE "done"
    /\ UNCHANGED <<memVars, pushed, smpVars, err, polVars, selVars, policy_net,
                   expected, did_sample, t, state, ep_pushes, ep_terminal, last_tr,
                   prev_tr, envVars, profitVars>>

Next == EpisodeStart \/ Step \/ EpisodeEnd

Spec == InitTrain /\ [][Next]_vars

\* ------------------------------------------------------------------------
\* The replay memory on its own: a fresh ReplayMemory, then any calls of push
\* and sample

PushItems ==
    {Transition(env_initial_state, 0, EnvNextState(0, env_initial_state, 0), 800),
     Transition(env_initial_state, 1, None, 0)}

InitMemory ==
    /\ pc = "new"
    /\ err = ""
    /\ NewMemory /\ NewPolicy /\ NewNets /\ NewLoop

MemPush ==
    /\ pc \in {"new", "push", "sample"}
    /\ Len(pushed) < MaxPushes
    /\ \E tr \in PushItems :
         /\ memory' = Push(memory, position, capacity, tr).memory
         /\ position' = Push(memory, position, capacity, tr).position
         /\ pushed' = Append(pushed, tr)
    /\ pc' = "push"
    /\ err' = ""
    /\ UNCHANGED <<capacity, smpVars, polVars, selVars, netVars, loopVars,
                   envVars, profitVars>>

MemSample ==
    /\ pc \in {"new", "push", "sample"}
    /\ \E n \in 0 .. (MaxCapacity + 1) :
       \E out \in RandomSample(memory, n) :
         /\ batch_size' = n
         /\ transitions' = out.result
         /\ slots' = out.slots
         /\ err' = out.err
         /\ memory' = out.memory
    /\ pc' = "sample"
    /\ UNCHANGED <<capacity, position, pushed, polVars, selVars, netVars, loopVars,
                   envVars, profitVars>>

NextMemory == MemPush \/ MemSample

SpecMemory == InitMemory /\ [][NextMemory]_vars

\* ------------------------------------------------------------------------
\* The policy on its own: a fresh AnnealedEpsGreedyPolicy, then any calls of
\* select_action

QInputs == [Actions -> 0 .. 2]

InitPolicy ==
    /\ pc = "new"
    /\ err = ""
    /\ NewMemory /\ NewPolicy /\ NewNets /\ NewLoop

PolSelect ==
    /\ pc \in {"new", "select_action"}
    /\ steps_done < MaxCalls
    /\ \E q \in QInputs, smp \in DrawSet, r \in Actions :
         /\ q_values' = q
         /\ sample' = smp
         /\ action' = SelectAction(q, smp, r, eps_start, eps_end, steps_done)
         /\ steps_done' = StepsAfter(steps_done,
                                     IsGreedy(smp, eps_start, eps_end, steps_done))
    /\ pc' = "select_action"
    /\ UNCHANGED <<memVars, pushed, smpVars, err, eps_start, eps_end, netVars, loopVars,
                   envVars, profitVars>>

NextPolicy == PolSelect

SpecPolicy == InitPolicy /\ [][NextPolicy]_vars

\* ------------------------------------------------------------------------
\* Properties of the replay memory (SpecMemory)

\* C1: after n pushes on a fresh memory of capacity C, len(memory) is
\* min(n, C) and the stored transitions are the min(n, C) most recently
\* pushed ones, push number j in slot (j - 1) mod C: a push onto a full
\* memory replaces the oldest stored transition.
C1_RingHoldsMostRecent ==
    LET n == Len(pushed)
        m == Min(n, capacity)
    IN  /\ Len(memory) = m
        /\ \A j \in (n - m + 1) .. n : memory[((j - 1) % capacity) + 1] = pushed[j]

\* a memory that has wrapped round twice in a row over differing transitions
C1_Witness ==
    /\ capacity >= 2
    /\ Len(pushed) = capacity + 2
    /\ pushed[Len(pushed)] # pushed[Len(pushed) - capacity]
    /\ pushed[Len(pushed) - 1] # pushed[Len(pushed) - 1 - capacity]
    /\ Len(memory) = capacity

\* C2: sample(n) with 0 <= n <= len(memory) returns exactly n transitions,
\* taken from n distinct slots, each the transition stored in its slot.
C2_SampleDistinctStored ==
    (pc = "sample" /\ batch_size <= Len(memory)) =>
        /\ err = ""
        /\ Len(transitions) = batch_size
        /\ Len(slots) = batch_size
        /\ \A i \in 1 .. batch_size :
             /\ slots[i] \in 1 .. Len(memory)
             /\ transitions[i] = memory[slots[i]]
        /\ \A i, j \in 1 .. batch_size : i # j => slots[i] # slots[j]

\* a full-size sample of a memory that stores the same transition twice
C2_Witness ==
    /\ pc = "sample"
    /\ err = ""
    /\ batch_size = 2
    /\ Len(memory) >= 3
    /\ transitions[1] = transitions[2]
    /\ slots[1] # slots[2]

\* C3: sample(n) with n > len(memory) raises an error, returns no batch, and
\* leaves the stored transitions, the size and the write position unchanged.
C3_OversizedSampleFails ==
    [][(pc' = "sample" /\ batch_size' > Len(memory)) =>
          /\ err' = "ValueError"
          /\ transitions' = <<>>
          /\ memory' = memory
          /\ position' = position
          /\ capacity' = capacity]_vars

\* an oversized sample of a memory that is not empty
C3_Witness ==
    /\ pc = "sample"
    /\ err = "ValueError"
    /\ Len(memory) >= 2
    /\ batch_size = Len(memory) + 1

\* ------------------------------------------------------------------------
\* Properties of the policy (SpecPolicy)

\* C5: with eps_start = eps_end = 0, select_action returns argmax(q_values)
\* for every step count and every draw in [0, 1), a draw of exactly 0 included.
C5_PureGreedyIsArgmax ==
    (pc = "select_action" /\ eps_start = 0 /\ eps_end = 0) =>
        action = ArgMax(q_values)

\* ------------------------------------------------------------------------
\* Properties of the training loop (Spec)

\* a step of the current episode has run
AfterStep == pc \in {"step", "episode_end", "error"} /\ ep_pushes > 0

C6_StepsDoneCountsCalls ==
    /\ pc \in {"step", "episode_end"} => steps_done = i_episode * T + t
    /\ pc \in {"episode_start", "done"} => steps_done = i_episode * T
    /\ pc = "error" => steps_done = i_episode * T + t + 1

\* the second episode, after a random first step
C6_Witness ==
    /\ pc = "step"
    /\ i_episode = 1
    /\ t = 1
    /\ sample = 0
    /\ ~IsGreedy(sample, eps_start, eps_end, steps_done - 1)
    /\ steps_done = T + 1

\* C7: for every batch update_model can be given, a batch of terminal
\* transitions only included, the step completes and the target of each
\* transition is reward + GAMMA * bootstrap, bootstrap 0 for a terminal
\* next_state and the target network's maximum otherwise.
C7_BackupCompletesOnEveryBatch ==
    (AfterStep /\ did_sample) =>
        /\ err = ""
        /\ Len(expected) = BATCH_SIZE
        /\ \A i \in 1 .. BATCH_SIZE :
             expected[i] = transitions[i].reward
                 + GAMMA * (IF transitions[i].next_state = None
                            THEN 0
                            ELSE 10 * MaxOf(forward(target_net, transitions[i].next_state)))

\* C8: the transition pushed at step t has next_state None exactly when
\* t = T-1 and carries the computed successor state otherwise; an episode
\* pushes at most T transitions, exactly T once it has run its steps, and
\* only the last of them is terminal.
C8_TerminalOnlyAtLastStep ==
    /\ ep_pushes <= T
    /\ ep_terminal = (IF ep_pushes = T THEN 1 ELSE 0)
    /\ pc = "episode_end" => ep_pushes = T
    /\ (pc \in {"episode_start", "done"} /\ i_episode > 0) => ep_pushes = T
    /\ AfterStep =>
         /\ (last_tr.next_state = None) <=> (ep_pushes = T)
         /\ ep_pushes < T =>
              last_tr.next_state =
                  env_step(ep_pushes - 1, last_tr.state, last_tr.action).next_state

\* the end of an episode, its last push terminal and the one before not
C8_Witness ==
    /\ pc = "episode_end"
    /\ ep_pushes = T
    /\ ep_terminal = 1
    /\ last_tr.next_state = None
    /\ \E i \in 1 .. Len(memory) : memory[i].next_state # None

\* C9: inside the loop the target is synchronised at the end of episode i
\* if and only if i mod TARGET_UPDATE = 0, and each time after all T steps of
\* that episode.
C9_SyncCadence ==
    syncs = {[episode |-> i, steps |-> T] :
                i \in {j \in 0 .. (i_episode - 1) : j % TARGET_UPDATE = 0}}

\* the run is over, with a synchronised and an unsynchronised episode behind
C9_Witness ==
    /\ pc = "done"
    /\ \E r \in syncs : r.episode > 0
    /\ \E i \in 0 .. (i_episode - 1) : \A r \in syncs : r.episode # i

\* C10: an optimisation step changes the policy parameters only; the target
\* parameters are always the policy parameters of the most recent
\* synchronisation, and the policy parameters change in an optimisation step
\* only, never to the target's.
C10_TargetIsLastSnapshot ==
    /\ [](target_net = synced)
    /\ [][/\ pc = "step" => target_net' = target_net
          /\ policy_net' # policy_net =>
               /\ pc = "step"
               /\ did_sample'
               /\ policy_net' # target_net]_vars

\* the policy has moved on from a target that was refreshed inside the loop
C10_Witness ==
    /\ target_net > 0
    /\ policy_net > target_net
    /\ synced = target_net
    /\ syncs # {}

\* ------------------------------------------------------------------------
\* Construction with any configuration: ReplayMemory(capacity) stores the
\* capacity it is given, whatever it is, and push meets it later

\* ReplayMemory.push with the exception it can raise: the assignment
\* self.memory[self.position] = ... is an IndexError when the list has no
\* such slot, which is the case of a capacity that is not positive
PushChecked(mem, pos, cap, tr) ==
    LET grown == IF Len(mem) < cap THEN Append(mem, None) ELSE mem
    IN  IF pos + 1 > Len(grown)
        THEN [memory |-> grown, position |-> pos, err |-> "IndexError"]
        ELSE [memory |-> Push(mem, pos, cap, tr).memory,
              position |-> Push(mem, pos, cap, tr).position,
              err |-> ""]

\* __init__ has no check: every capacity gives a memory, with no error
InitConfig ==
    /\ pc = "new"
    /\ err = ""
    /\ capacity \in (0 - 1) .. MaxCapacity
    /\ memory = <<>>
    /\ position = 0
    /\ pushed = <<>>
    /\ batch_size = 0
    /\ transitions = <<>>
    /\ slots = <<>>
    /\ NewPolicy /\ NewNets /\ NewLoop

CfgPush ==
    /\ pc \in {"new", "push", "sample"}
    /\ Len(pushed) < MaxPushes
    /\ \E tr \in PushItems :
         LET out == PushChecked(memory, position, capacity, tr)
         IN  /\ memory' = out.memory
             /\ position' = out.position
             /\ err' = out.err
             /\ pushed' = Append(pushed, tr)
             /\ pc' = IF out.err = "" THEN "push" ELSE "error"
    /\ UNCHANGED <<capacity, smpVars, polVars, selVars, netVars, loopVars,
                   envVars, profitVars>>

NextConfig == CfgPush \/ MemSample

SpecConfig == InitConfig /\ [][NextConfig]_vars

\* C11: an invalid configuration (here a replay capacity <= 0) is rejected
\* with an error at construction, before any push or sample is executed.
C11_InvalidConfigRejected ==
    capacity <= 0 => (pc = "new" /\ err = "ConfigurationError")

\* ------------------------------------------------------------------------
\* The environment on its own: env_step on any arguments, and the demand and
\* profit functions of the first cell on any price vector

MaxVecLen == 3

q_0 == 5000
k == 20
unit_cost == 100
a_q == 300
b_q == 100

plus(x) == IF x < 0 THEN 0 ELSE x

minus(x) == IF x > 0 THEN 0 ELSE 0 - x

\* np.sqrt, on the integers: exact on the perfect squares, which are the only
\* arguments the price vectors below produce
shock(x) == CHOOSE r \in 0 .. x : r * r <= x /\ (r + 1) * (r + 1) > x

q_t(p_t, p_t_1, q0, kk, a, b) ==
    plus(q0 - kk * p_t - a * shock(plus(p_t - p_t_1)) + b * shock(minus(p_t - p_t_1)))

profit_t(p_t, p_t_1, q0, kk, a, b, uc) ==
    q_t(p_t, p_t_1, q0, kk, a, b) * (p_t - uc)

\* range(len(p)) starts at 0, and p[t-1] at t = 0 is p[-1], the last entry
profit_total(pv, uc, q0, kk, a, b) ==
    profit_t(pv[1], pv[1], q0, kk, 0, 0, uc)
    + SumSeq([i \in 1 .. Len(pv) |->
                 profit_t(pv[i], pv[IF i = 1 THEN Len(pv) ELSE i - 1],
                          q0, kk, a, b, uc)])

profit_response(pv) == profit_total(pv, unit_cost, q_0, k, a_q, b_q)

\* prices whose differences are perfect squares
ProfitPrices == {109, 125, 134}

PriceVectors == UNION {[1 .. n -> ProfitPrices] : n \in 1 .. MaxVecLen}

\* the states of length 2T: a price window over 0 and the stored grid
\* prices, and a time part that is all zero or has a single 1
EnvStates ==
    {pr \o [j \in 1 .. T |-> IF j = i THEN 1 ELSE 0] :
        pr \in [1 .. T -> {0} \cup {IntCast(PriceNum(a), PriceDen) : a \in Actions}],
        i \in 0 .. T}

\* the objects of the notebook exist but are not used by these functions
InitEnv ==
    /\ pc = "new"
    /\ err = ""
    /\ NewMemory /\ NewPolicy /\ NewNets /\ NewLoop
    /\ capacity = MaxCapacity
    /\ <<eps_start, eps_end>> = <<900, 50>>

EnvStepCall ==
    /\ pc \in {"new", "env_step"}
    /\ \E tt \in 0 .. (T - 1), st \in EnvStates, a \in Actions :
         /\ t' = tt
         /\ state' = st
         /\ action' = a
         /\ next_st' = env_step(tt, st, a).next_state
         /\ reward' = env_step(tt, st, a).reward
    /\ pc' = "env_step"
    /\ UNCHANGED <<memVars, pushed, smpVars, err, polVars, q_values, sample, netVars,
                   i_episode, ep_pushes, ep_terminal, last_tr, syncs, prev_tr,
                   profitVars>>

ProfitTotalCall ==
    /\ pc \in {"new", "profit_total"}
    /\ \E pv \in PriceVectors :
         /\ p' = pv
         /\ total' = profit_response(pv)
    /\ pc' = "profit_total"
    /\ UNCHANGED <<memVars, pushed, smpVars, err, polVars, selVars, netVars,
                   loopVars, envVars>>

NextEnv == EnvStepCall \/ ProfitTotalCall

SpecEnv == InitEnv /\ [][NextEnv]_vars

\* C12: step 0 carries no price-change term: env_step at t = 0 from the
\* initial state returns the price alone as reward, and the total profit of a
\* price vector is the step-0 profit of p[0] against itself without shock,
\* counted once, plus the profits of the steps 1 .. len(p)-1 against their
\* predecessors.
C12_StepZeroHasNoPriceChangeTerm ==
    /\ (pc = "env_step" /\ t = 0 /\ state = env_initial_state)
          => reward = 10 * next_st[1]
    /\ p # <<>> =>
          total = profit_t(p[1], p[1], q_0, k, 0, 0, unit_cost)
                  + SumSeq([i \in 1 .. (Len(p) - 1) |->
                               profit_t(p[i + 1], p[i], q_0, k, a_q, b_q, unit_cost)])

\* C13: the reward env_step returns (in tenths) is demand * (price - unit_cost)
\* as q_t and profit_t give it for the price of the action and the previously
\* chosen price (the price itself at step 0); stated for the calls where both
\* sides are exact: an integer grid price and a perfect-square difference.
C13_RewardIsDemandTimesMargin ==
    (pc = "env_step" /\ PriceNum(action) % PriceDen = 0) =>
        LET price == PriceNum(action) \div PriceDen
            prev  == IF t = 0 THEN price ELSE state[1]
            d     == Abs(price - prev)
        IN  shock(d) * shock(d) = d =>
                reward = 10 * profit_t(price, prev, q_0, k, a_q, b_q, unit_cost)

\* C17: env_step(t, s, a) returns next_state with the price of the action at
\* index 0, the window of s shifted by one behind it, and in [T, 2T) a 1 at
\* T+t and 0 elsewhere.
C17_NextStateLayout ==
    pc = "env_step" =>
        /\ next_st[1] * PriceDen = PriceNum(action)
        /\ \A i \in 2 .. T : next_st[i] = state[i - 1]
        /\ \A i \in 1 .. T : next_st[T + i] = (IF i = t + 1 THEN 1 ELSE 0)

\* ------------------------------------------------------------------------
\* The layout of the states in the training loop (Spec)

\* C14, as stated: the working state of every step, and the state and the
\* non-terminal next_state of every stored transition, have exactly one 1 in
\* [T, 2T) and 0 in its other entries.
C14_TimePartIsOneHot ==
    LET OneHot(st) == /\ \A i \in 1 .. T : st[T + i] \in {0, 1}
                      /\ Cardinality({i \in 1 .. T : st[T + i] = 1}) = 1
    IN  /\ pc = "step" => OneHot(state)
        /\ \A j \in 1 .. Len(memory) :
             /\ OneHot(memory[j].state)
             /\ memory[j].next_state # None => OneHot(memory[j].next_state)

\* C14, amended: the part [T, 2T) holds at most one 1 and 0 elsewhere.  The
\* initial state of an episode has none; the state produced by step t has
\* exactly one, at T+t.  So the working state after t steps has its 1 at
\* T+t-1 (none for t = 0), and the transition stored at step t has a state
\* with its 1 at T+t-1 (none for t = 0) and a next_state with its 1 at T+t.
C14_TimePartEncodesProducingStep ==
    LET TimeBits(st) == {i \in 1 .. T : st[T + i] = 1}
        Binary(st)   == \A i \in 1 .. T : st[T + i] \in {0, 1}
    IN  /\ Binary(state)
        /\ TimeBits(state) = {i \in 1 .. T : i = t}
        /\ AfterStep =>
             /\ Binary(last_tr.state)
             /\ TimeBits(last_tr.state) = {i \in 1 .. T : i = ep_pushes - 1}
             /\ last_tr.next_state # None =>
                  /\ Binary(last_tr.next_state)
                  /\ TimeBits(last_tr.next_state) = {ep_pushes}
        /\ \A j \in 1 .. Len(memory) :
             /\ Binary(memory[j].state)
             /\ Cardinality(TimeBits(memory[j].state)) <= 1
             /\ memory[j].next_state # None =>
                  /\ Binary(memory[j].next_state)
                  /\ Cardinality(TimeBits(memory[j].next_state)) = 1

\* the second step of an episode: the working state carries the time bit of
\* step 0 and the transition just stored started from the all-zero state
C14_Witness ==
    /\ pc = "step"
    /\ t = 1
    /\ state[T + 1] = 1
    /\ last_tr # None
    /\ last_tr.state = env_initial_state
    /\ last_tr.next_state = state

\* C15: a stored non-terminal transition has as next_state what env_step
\* gives for its own state and action at its time index, and the transition
\* pushed right after it starts from that next_state; the first transition of
\* every episode starts from the all-zero initial state.
C15_TransitionsChain ==
    /\ \A j \in 1 .. Len(memory) :
         memory[j].next_state # None =>
             \E tt \in 0 .. (T - 1) :
                 memory[j].next_state =
                     env_step(tt, memory[j].state, memory[j].action).next_state
    /\ AfterStep =>
        /\ last_tr.next_state # None =>
             /\ last_tr.next_state =
                    env_step(ep_pushes - 1, last_tr.state, last_tr.action).next_state
             /\ pc = "step" => state = last_tr.next_state
        /\ ep_pushes = 1 => last_tr.state = env_initial_state
        /\ ep_pushes > 1 =>
             /\ prev_tr # None
             /\ prev_tr.next_state # None
             /\ prev_tr.next_state = last_tr.state
        /\ (prev_tr # None /\ ep_pushes = 1) => prev_tr.next_state = None

\* the second push of a later episode: it starts where the first one, which
\* started from the all-zero state, ended
C15_Witness ==
    /\ AfterStep
    /\ i_episode >= 1
    /\ ep_pushes = 2
    /\ prev_tr # None
    /\ prev_tr.state = env_initial_state
    /\ prev_tr.next_state # None
    /\ last_tr.state = prev_tr.next_state
    /\ last_tr.state # env_initial_state

\* ------------------------------------------------------------------------
\* The run of the training loop as a whole (Spec)

\* C18: whatever the draws and the sampled batches, no step is aborted by an
\* error, and the loop stops only after num_episodes episodes of T steps
\* each, num_episodes*T pushes in all.
C18_LoopRunsToCompletion ==
    /\ pc # "error"
    /\ err = ""
    /\ pc = "done" => /\ i_episode = num_episodes
                      /\ steps_done = num_episodes * T
                      /\ ep_pushes = T

\* C19: every batch update_model samples in the loop has at least one
\* transition whose next_state is not None, so the list it stacks is not
\* empty.
C19_BatchHasNonFinal ==
    (AfterStep /\ did_sample) =>
        \E i \in 1 .. Len(transitions) : transitions[i].next_state # None

\* C20: the memory never shrinks: after N pushes it holds min(N, capacity)
\* transitions, and the number of optimizer steps done by then is
\* max(0, N - BATCH_SIZE + 1) if capacity >= BATCH_SIZE and 0 otherwise
\* (N is steps_done: one select_action per push).
C20_UpdatesCountFromBufferSize ==
    /\ Len(memory) = Min(steps_done, capacity)
    /\ policy_net = (IF capacity >= BATCH_SIZE /\ steps_done >= BATCH_SIZE
                     THEN steps_done - BATCH_SIZE + 1
                     ELSE 0)

====
